---- MODULE Spec2Model ----
(***************************************************************************)
(* State-machine model of DeployerReconciler.Reconcile                     *)
(* (src/internal/controller/memcached_controller.go).                      *)
(*                                                                         *)
(* One Deployer custom resource instance is followed through its life.     *)
(* A reconcile pass is a sequence of steps, one per Resource Store call,   *)
(* so that the store (users, other controllers, garbage collection) can    *)
(* act between two calls of a pass.  Every store call may fail; a write    *)
(* made from a copy that is older than the stored object is rejected with  *)
(* Conflict.                                                               *)
(***************************************************************************)
EXTENDS Integers, Sequences, FiniteSets, TLC

VARIABLES
    cr,              \* the stored Deployer object
    daemonSets,      \* the stored DaemonSets (AgentWorkload objects)
    deployments,     \* the stored Deployments (ServiceWorkload objects)
    images,          \* the image environment variables that are set
    stale,           \* the stored Deployer changed since the pass last read or wrote it
    envBudget,       \* remaining spec edits / external scalings
    pc,              \* position of the reconciler inside Reconcile
    deployer,        \* Reconcile's local variable deployer
    foundDeployment, \* Reconcile's local variable foundDeployment
    err,             \* Reconcile's local variable err (the failed Deployment update)
    result,          \* what the last finished pass returned
    passLog,         \* the store calls and events of the current (or last) pass
    atStart,         \* what the store held when the current (or last) pass began
    events,          \* number of deletion events sent to the Recorder
    removed          \* a pass has persisted the removal of the finalizer

vars == <<cr, daemonSets, deployments, images, stale, envBudget, pc, deployer,
          foundDeployment, err, result, passLog, atStart, events, removed>>

----------------------------------------------------------------------------
(* Bounds *)

\* Spec.Size and replica counts range over 0..MaxSize
MaxSize == 1
\* the event counter saturates here
MaxEvents == 2
\* number of spec edits / external scalings in one behaviour
MaxEnvChanges == 2

----------------------------------------------------------------------------
(* Program constants *)

deployerFinalizer == "cache.example.com/finalizer"
typeAvailableDeployer == "Available"
typeDegradedDeployer == "Degraded"
\* the namespace every child lookup uses
lookupNamespace == "directpv"
\* the name the DaemonSet is created under
daemonSetName == "node-server"

\* a finalizer of some other controller (metadata.finalizers is a set of tags)
otherFinalizer == "example.com/other"

Names == {"node-server", "cr"}
Namespaces == {"directpv", "tenant"}
ImageEnvVars == {"DIRECTPV_IMAGE", "CSI_RESIZER", "CSI_PROVISIONER",
                 "CSI_NODE_DRIVER_REGISTRAR", "LIVENESS_PROBE"}
Sizes == 0..MaxSize

----------------------------------------------------------------------------
(* Values *)

Condition(t, s, r) == [type |-> t, status |-> s, reason |-> r]

NoDeployer ==
    [exists |-> FALSE, name |-> "", namespace |-> "", size |-> 0,
     conditions |-> <<>>, finalizers |-> {}, deletionTimestamp |-> FALSE]

NoDeployment == [namespace |-> "", name |-> "", owner |-> "", replicas |-> 0 - 1]

NoResult == [requeue |-> "none", err |-> "unset"]
Result(rq, e) == [requeue |-> rq, err |-> e]

Op(verb, kind, what, conds, res) ==
    [verb |-> verb, kind |-> kind, what |-> what, conds |-> conds, res |-> res]

\* meta.SetStatusCondition appending the condition whatever the set holds
SetStatusCondition_Appends(conds, c) == Append(conds, c)

\* meta.SetStatusCondition: replace the condition of that type, or append it
SetStatusCondition(conds, c) ==
    IF \E i \in 1..Len(conds) : conds[i].type = c.type
    THEN LET first == CHOOSE i \in 1..Len(conds) :
                        /\ conds[i].type = c.type
                        /\ \A j \in 1..(i - 1) : conds[j].type # c.type
         IN [conds EXCEPT ![first] = c]
    ELSE Append(conds, c)

ContainsFinalizer(o, f) == f \in o.finalizers
AddFinalizer(o, f) == [o EXCEPT !.finalizers = @ \cup {f}]
RemoveFinalizer(o, f) == [o EXCEPT !.finalizers = @ \ {f}]

----------------------------------------------------------------------------
(* Configuration: the image environment variables *)

imageForDeployer == "DIRECTPV_IMAGE" \in images
imageForResizer == "CSI_RESIZER" \in images
imageForProvisioner == "CSI_PROVISIONER" \in images
imageForRegistrar == "CSI_NODE_DRIVER_REGISTRAR" \in images
imageForLivenessProbe == "LIVENESS_PROBE" \in images

\* daemonSetForDeployer leaving the controller reference out
daemonSetForDeployer_NoOwner(d) ==
    [namespace |-> d.namespace, name |-> daemonSetName, owner |-> ""]

\* the object daemonSetForDeployer builds, and whether it can build it
daemonSetForDeployerOk == imageForDeployer /\ imageForRegistrar /\ imageForLivenessProbe
daemonSetForDeployer(d) ==
    [namespace |-> d.namespace, name |-> daemonSetName, owner |-> d.name]

\* deploymentForDeployer asking for no replica at all
deploymentForDeployer_ZeroReplicas(d) ==
    [namespace |-> d.namespace, name |-> d.name, owner |-> d.name, replicas |-> 0]

\* the object deploymentForDeployer builds, and whether it can build it
deploymentForDeployerOk == imageForDeployer /\ imageForResizer /\ imageForProvisioner
deploymentForDeployer(d) ==
    [namespace |-> d.namespace, name |-> d.name, owner |-> d.name, replicas |-> d.size]

----------------------------------------------------------------------------
(* The Resource Store *)

\* outcomes of reading the Deployer
GetOutcomes(F) ==
    (IF cr.exists THEN {"ok"} ELSE {"NotFound"}) \cup (IF F THEN {"Error"} ELSE {})

\* outcomes of writing the Deployer (Update or Status().Update) from the local copy
WriteOutcomes(F) ==
    (IF ~cr.exists THEN {"NotFound"} ELSE IF stale THEN {"Conflict"} ELSE {"ok"})
        \cup (IF F THEN {"Error"} ELSE {})

\* the stored DaemonSets / Deployments a lookup by (namespace, name) returns
LookupDaemonSet(ns, n) == {d \in daemonSets : d.namespace = ns /\ d.name = n}
LookupDeployment(ns, n) == {d \in deployments : d.namespace = ns /\ d.name = n}

LookupOutcomes(found, F) ==
    (IF found # {} THEN {"ok"} ELSE {"NotFound"}) \cup (IF F THEN {"Error"} ELSE {})

CreateOutcomes(found, F) ==
    (IF found # {} THEN {"AlreadyExists"} ELSE {"ok"}) \cup (IF F THEN {"Error"} ELSE {})

\* the store purges an object marked for deletion once its finalizer set is empty
Purged(o) == o.deletionTimestamp /\ o.finalizers = {}
Stored(o) == IF Purged(o) THEN [NoDeployer EXCEPT !.name = o.name,
                                                  !.namespace = o.namespace,
                                                  !.size = o.size]
             ELSE o
\* owner-reference cascade: the children of a purged owner are collected
Cascade(o, children) == IF Purged(o) THEN {c \in children : c.owner # o.name}
                        ELSE children

----------------------------------------------------------------------------
Init ==
    /\ \E n \in Names, ns \in Namespaces, s \in Sizes, others \in SUBSET {otherFinalizer} :
          cr = [exists |-> TRUE, name |-> n, namespace |-> ns, size |-> s,
                conditions |-> <<>>, finalizers |-> others,
                deletionTimestamp |-> FALSE]
    /\ daemonSets = {}
    /\ deployments = {}
    /\ images \in {ImageEnvVars} \cup {ImageEnvVars \ {v} : v \in ImageEnvVars}
    /\ stale = FALSE
    /\ envBudget = MaxEnvChanges
    /\ pc = "idle"
    /\ deployer = NoDeployer
    /\ foundDeployment = NoDeployment
    /\ err = "none"
    /\ result = NoResult
    /\ passLog = <<>>
    /\ atStart = [steady |-> FALSE, drift |-> FALSE, read |-> NoDeployer]
    /\ events = 0
    /\ removed = FALSE

----------------------------------------------------------------------------
(* What a pass starts from *)

Live(o) == o.exists /\ ~o.deletionTimestamp
HasCondition(o, t, st) == \E i \in 1..Len(o.conditions) :
                             o.conditions[i].type = t /\ o.conditions[i].status = st
OwnedDaemonSets == {d \in daemonSets : d.owner = cr.name}
OwnedDeployments == {d \in deployments : d.owner = cr.name}

\* live, finalizer attached, both child workloads present where a pass looks them
\* up, replica counts equal, Available=True recorded
SteadyState ==
    /\ Live(cr)
    /\ ContainsFinalizer(cr, deployerFinalizer)
    /\ LookupDaemonSet(lookupNamespace, cr.name) # {}
    /\ LookupDeployment(lookupNamespace, cr.name) # {}
    /\ \A d \in LookupDeployment(lookupNamespace, cr.name) : d.replicas = cr.size
    /\ HasCondition(cr, typeAvailableDeployer, "True")

\* live, and the ServiceWorkload exists with another replica count than the spec's
DriftState ==
    /\ Live(cr)
    /\ OwnedDeployments # {}
    /\ \A d \in OwnedDeployments : d.replicas # cr.size

----------------------------------------------------------------------------
(* Reconcile, one action per store call.  F: store calls may fail for reasons *)
(* of the infrastructure.                                                    *)

Finish(rq, e) == pc' = "done" /\ result' = Result(rq, e)

Log(verb, kind, what, conds, res) ==
    passLog' = Append(passLog, Op(verb, kind, what, conds, res))

\* AfterFinalizer going on to the child workloads whatever the deletionTimestamp
AfterFinalizer_IgnoresDeletion(d) ==
    pc' = "getDaemonSet" /\ result' = NoResult

\* AfterFinalizer taking the finalization branch whatever the deletionTimestamp
AfterFinalizer_AlwaysFinalizes(d) ==
    pc' = "degradedUnknown" /\ result' = NoResult

\* where Reconcile goes once the finalizer is known to be attached (lines 145-200)
AfterFinalizer(d) ==
    IF d.deletionTimestamp
    THEN IF ContainsFinalizer(d, deployerFinalizer)
         THEN pc' = "degradedUnknown" /\ result' = NoResult
         ELSE Finish("none", "none")
    ELSE pc' = "getDaemonSet" /\ result' = NoResult

\* FetchDeployer returning the NotFound of the initial read as an error
FetchDeployer_ReturnsNotFound(F) ==
    /\ pc \in {"idle", "done"}
    /\ \E o \in GetOutcomes(F) :
          /\ passLog' = <<Op("Get", "Deployer", "", <<>>, o)>>
          /\ atStart' = [steady |-> SteadyState, drift |-> DriftState,
                         read |-> IF o = "ok" THEN cr ELSE NoDeployer]
          /\ IF o = "ok"
             THEN /\ deployer' = cr
                  /\ stale' = FALSE
                  /\ pc' = "initStatus"
                  /\ result' = NoResult
             ELSE /\ deployer' = NoDeployer
                  /\ stale' = stale
                  /\ Finish("none", o)
    /\ foundDeployment' = NoDeployment
    /\ err' = "none"
    /\ UNCHANGED <<cr, daemonSets, deployments, images, envBudget, events, removed>>

\* lines 92-108: fetch the Deployer instance
FetchDeployer(F) ==
    /\ pc \in {"idle", "done"}
    /\ \E o \in GetOutcomes(F) :
          /\ passLog' = <<Op("Get", "Deployer", "", <<>>, o)>>
          /\ atStart' = [steady |-> SteadyState, drift |-> DriftState,
                         read |-> IF o = "ok" THEN cr ELSE NoDeployer]
          /\ IF o = "ok"
             THEN /\ deployer' = cr
                  /\ stale' = FALSE
                  /\ pc' = "initStatus"
                  /\ result' = NoResult
             ELSE /\ deployer' = NoDeployer
                  /\ stale' = stale
                  /\ Finish("none", IF o = "NotFound" THEN "none" ELSE o)
    /\ foundDeployment' = NoDeployment
    /\ err' = "none"
    /\ UNCHANGED <<cr, daemonSets, deployments, images, envBudget, events, removed>>

\* InitStatus without the status initialization
InitStatus_Skipped(F) ==
    /\ pc = "initStatus"
    /\ pc' = "finalizer"
    /\ UNCHANGED <<cr, daemonSets, deployments, images, stale, envBudget, deployer,
                   foundDeployment, err, result, passLog, atStart, events, removed>>

\* lines 110-116: set Available=Unknown when no condition is recorded
InitStatus(F) ==
    /\ pc = "initStatus"
    /\ IF Len(deployer.conditions) = 0
       THEN LET conds == SetStatusCondition(deployer.conditions,
                            Condition(typeAvailableDeployer, "Unknown", "Reconciling"))
            IN \E o \in WriteOutcomes(F) :
                  /\ Log("StatusUpdate", "Deployer", "Available=Unknown", conds, o)
                  /\ IF o = "ok"
                     THEN /\ cr' = [cr EXCEPT !.conditions = conds]
                          /\ deployer' = cr'
                          /\ pc' = "refetch"
                          /\ result' = NoResult
                     ELSE /\ cr' = cr
                          /\ deployer' = [deployer EXCEPT !.conditions = conds]
                          /\ Finish("none", o)
       ELSE /\ pc' = "finalizer"
            /\ UNCHANGED <<cr, deployer, result, passLog>>
    /\ UNCHANGED <<daemonSets, deployments, images, stale, envBudget,
                   foundDeployment, err, atStart, events, removed>>

\* RefetchAfterInit going on to the finalizer although the re-fetch failed
RefetchAfterInit_IgnoresFailure(F) ==
    /\ pc = "refetch"
    /\ \E o \in GetOutcomes(F) :
          /\ Log("Get", "Deployer", "", <<>>, o)
          /\ IF o = "ok"
             THEN deployer' = cr /\ stale' = FALSE
             ELSE UNCHANGED <<deployer, stale>>
          /\ pc' = "finalizer"
          /\ result' = NoResult
    /\ UNCHANGED <<cr, daemonSets, deployments, images, envBudget,
                   foundDeployment, err, atStart, events, removed>>

\* lines 118-126: re-fetch after the status update
RefetchAfterInit(F) ==
    /\ pc = "refetch"
    /\ \E o \in GetOutcomes(F) :
          /\ Log("Get", "Deployer", "", <<>>, o)
          /\ IF o = "ok"
             THEN /\ deployer' = cr
                  /\ stale' = FALSE
                  /\ pc' = "finalizer"
                  /\ result' = NoResult
             ELSE /\ UNCHANGED <<deployer, stale>>
                  /\ Finish("none", o)
    /\ UNCHANGED <<cr, daemonSets, deployments, images, envBudget,
                   foundDeployment, err, atStart, events, removed>>

\* EnsureFinalizer storing a spec.size of its own with the finalizer
EnsureFinalizer_OverwritesSpec(F) ==
    /\ pc = "finalizer"
    /\ IF ~ContainsFinalizer(deployer, deployerFinalizer)
       THEN LET d == AddFinalizer(deployer, deployerFinalizer)
            IN \E o \in WriteOutcomes(F) :
                  /\ Log("Update", "Deployer", "AddFinalizer", <<>>, o)
                  /\ IF o = "ok"
                     THEN /\ cr' = [cr EXCEPT !.finalizers = d.finalizers,
                                              !.size = 0]
                          /\ deployer' = cr'
                          /\ AfterFinalizer(cr')
                     ELSE /\ cr' = cr
                          /\ deployer' = d
                          /\ Finish("none", o)
       ELSE /\ AfterFinalizer(deployer)
            /\ UNCHANGED <<cr, deployer, passLog>>
    /\ UNCHANGED <<daemonSets, deployments, images, stale, envBudget,
                   foundDeployment, err, atStart, events, removed>>

\* lines 129-148: add the finalizer when the local copy does not hold it
EnsureFinalizer(F) ==
    /\ pc = "finalizer"
    /\ IF ~ContainsFinalizer(deployer, deployerFinalizer)
       THEN LET d == AddFinalizer(deployer, deployerFinalizer)
            IN \E o \in WriteOutcomes(F) :
                  /\ Log("Update", "Deployer", "AddFinalizer", <<>>, o)
                  /\ IF o = "ok"
                     THEN /\ cr' = [cr EXCEPT !.finalizers = d.finalizers,
                                              !.size = d.size]
                          /\ deployer' = cr'
                          /\ AfterFinalizer(cr')
                     ELSE /\ cr' = cr
                          /\ deployer' = d
                          /\ Finish("none", o)
       ELSE /\ AfterFinalizer(deployer)
            /\ UNCHANGED <<cr, deployer, passLog>>
    /\ UNCHANGED <<daemonSets, deployments, images, stale, envBudget,
                   foundDeployment, err, atStart, events, removed>>

\* MarkDegradedUnknown refusing a resource that carries a Degraded condition already
MarkDegradedUnknown_OnlyOnce(F) ==
    /\ pc = "degradedUnknown"
    /\ IF \E i \in 1..Len(deployer.conditions) :
             deployer.conditions[i].type = typeDegradedDeployer
       THEN /\ Finish("none", "Error")
            /\ UNCHANGED <<cr, deployer, passLog>>
       ELSE LET conds == SetStatusCondition(deployer.conditions,
                            Condition(typeDegradedDeployer, "Unknown", "Finalizing"))
            IN \E o \in WriteOutcomes(F) :
                  /\ Log("StatusUpdate", "Deployer", "Degraded=Unknown", conds, o)
                  /\ IF o = "ok"
                     THEN /\ cr' = [cr EXCEPT !.conditions = conds]
                          /\ deployer' = cr'
                          /\ pc' = "finalizerOperations"
                          /\ result' = NoResult
                     ELSE /\ cr' = cr
                          /\ deployer' = [deployer EXCEPT !.conditions = conds]
                          /\ Finish("none", o)
    /\ UNCHANGED <<daemonSets, deployments, images, stale, envBudget,
                   foundDeployment, err, atStart, events, removed>>

\* lines 150-160: mark the resource Degraded=Unknown before the finalizer operations
MarkDegradedUnknown(F) ==
    /\ pc = "degradedUnknown"
    /\ LET conds == SetStatusCondition(deployer.conditions,
                        Condition(typeDegradedDeployer, "Unknown", "Finalizing"))
       IN \E o \in WriteOutcomes(F) :
             /\ Log("StatusUpdate", "Deployer", "Degraded=Unknown", conds, o)
             /\ IF o = "ok"
                THEN /\ cr' = [cr EXCEPT !.conditions = conds]
                     /\ deployer' = cr'
                     /\ pc' = "finalizerOperations"
                     /\ result' = NoResult
                ELSE /\ cr' = cr
                     /\ deployer' = [deployer EXCEPT !.conditions = conds]
                     /\ Finish("none", o)
    /\ UNCHANGED <<daemonSets, deployments, images, stale, envBudget,
                   foundDeployment, err, atStart, events, removed>>

\* doFinalizerOperationsForDeployer deleting the child workloads itself
doFinalizerOperationsForDeployer_DeletesChildren ==
    /\ pc = "finalizerOperations"
    /\ events' = IF events < MaxEvents THEN events + 1 ELSE events
    /\ Log("Event", "Deployer", "Deleting", <<>>, "ok")
    /\ daemonSets' = {d \in daemonSets : d.owner # deployer.name}
    /\ deployments' = {d \in deployments : d.owner # deployer.name}
    /\ pc' = "refetchFinalizing"
    /\ UNCHANGED <<cr, images, stale, envBudget, deployer,
                   foundDeployment, err, result, atStart, removed>>

\* lines 164, 330-347: the cleanup; it raises the deletion event
doFinalizerOperationsForDeployer ==
    /\ pc = "finalizerOperations"
    /\ events' = IF events < MaxEvents THEN events + 1 ELSE events
    /\ Log("Event", "Deployer", "Deleting", <<>>, "ok")
    /\ pc' = "refetchFinalizing"
    /\ UNCHANGED <<cr, daemonSets, deployments, images, stale, envBudget, deployer,
                   foundDeployment, err, result, atStart, removed>>

\* lines 170-177: re-fetch before the second status update
RefetchBeforeDegradedTrue(F) ==
    /\ pc = "refetchFinalizing"
    /\ \E o \in GetOutcomes(F) :
          /\ Log("Get", "Deployer", "", <<>>, o)
          /\ IF o = "ok"
             THEN /\ deployer' = cr
                  /\ stale' = FALSE
                  /\ pc' = "degradedTrue"
                  /\ result' = NoResult
             ELSE /\ UNCHANGED <<deployer, stale>>
                  /\ Finish("none", o)
    /\ UNCHANGED <<cr, daemonSets, deployments, images, envBudget,
                   foundDeployment, err, atStart, events, removed>>

\* MarkDegradedTrue going on to the finalizer removal although the update failed
MarkDegradedTrue_IgnoresFailure(F) ==
    /\ pc = "degradedTrue"
    /\ LET conds == SetStatusCondition(deployer.conditions,
                        Condition(typeDegradedDeployer, "True", "Finalizing"))
       IN \E o \in WriteOutcomes(F) :
             /\ Log("StatusUpdate", "Deployer", "Degraded=True", conds, o)
             /\ IF o = "ok"
                THEN cr' = [cr EXCEPT !.conditions = conds] /\ deployer' = cr'
                ELSE cr' = cr /\ deployer' = [deployer EXCEPT !.conditions = conds]
             /\ pc' = "removeFinalizer"
             /\ result' = NoResult
    /\ UNCHANGED <<daemonSets, deployments, images, stale, envBudget,
                   foundDeployment, err, atStart, events, removed>>

\* lines 179-186: mark the resource Degraded=True
MarkDegradedTrue(F) ==
    /\ pc = "degradedTrue"
    /\ LET conds == SetStatusCondition(deployer.conditions,
                        Condition(typeDegradedDeployer, "True", "Finalizing"))
       IN \E o \in WriteOutcomes(F) :
             /\ Log("StatusUpdate", "Deployer", "Degraded=True", conds, o)
             /\ IF o = "ok"
                THEN /\ cr' = [cr EXCEPT !.conditions = conds]
                     /\ deployer' = cr'
                     /\ pc' = "removeFinalizer"
                     /\ result' = NoResult
                ELSE /\ cr' = cr
                     /\ deployer' = [deployer EXCEPT !.conditions = conds]
                     /\ Finish("none", o)
    /\ UNCHANGED <<daemonSets, deployments, images, stale, envBudget,
                   foundDeployment, err, atStart, events, removed>>

\* lines 188-199: remove the finalizer and persist the removal; the store purges
\* the object, and collects its children, once no finalizer is left.  When the
\* copy read at line 174 does not hold the finalizer, RemoveFinalizer reports that
\* it removed nothing and the pass asks for a requeue without any update.
RemoveFinalizerAndUpdate(F) ==
    /\ pc = "removeFinalizer"
    /\ LET d == RemoveFinalizer(deployer, deployerFinalizer)
       IN IF d = deployer
          THEN /\ Finish("immediate", "none")
               /\ UNCHANGED <<cr, daemonSets, deployments, deployer, removed, passLog>>
          ELSE \E o \in WriteOutcomes(F) :
                  /\ Log("Update", "Deployer", "RemoveFinalizer", <<>>, o)
                  /\ IF o = "ok"
                     THEN LET w == [cr EXCEPT !.finalizers = d.finalizers,
                                              !.size = d.size]
                          IN /\ cr' = Stored(w)
                             /\ daemonSets' = Cascade(w, daemonSets)
                             /\ deployments' = Cascade(w, deployments)
                             /\ deployer' = w
                             /\ removed' = TRUE
                             /\ Finish("none", "none")
                     ELSE /\ UNCHANGED <<cr, daemonSets, deployments, removed>>
                          /\ deployer' = d
                          /\ Finish("none", o)
    /\ UNCHANGED <<images, stale, envBudget, foundDeployment, err, atStart, events>>

\* lines 202-205, 231-235: look the DaemonSet up
GetDaemonSet(F) ==
    /\ pc = "getDaemonSet"
    /\ \E o \in LookupOutcomes(LookupDaemonSet(lookupNamespace, deployer.name), F) :
          /\ Log("Get", "DaemonSet", deployer.name, <<>>, o)
          /\ IF o = "ok" THEN pc' = "getDeployment" /\ result' = NoResult
             ELSE IF o = "NotFound" THEN pc' = "createDaemonSet" /\ result' = NoResult
             ELSE Finish("none", o)
    /\ UNCHANGED <<cr, daemonSets, deployments, images, stale, envBudget, deployer,
                   foundDeployment, err, atStart, events, removed>>

\* lines 206-230: define the DaemonSet and create it; the pass goes on to the
\* Deployment when the create succeeds
CreateDaemonSet(F) ==
    /\ pc = "createDaemonSet"
    /\ IF ~daemonSetForDeployerOk
       THEN LET conds == SetStatusCondition(deployer.conditions,
                            Condition(typeAvailableDeployer, "False", "Reconciling"))
            IN \E o \in WriteOutcomes(F) :
                  /\ Log("StatusUpdate", "Deployer", "Available=False", conds, o)
                  /\ IF o = "ok"
                     THEN cr' = [cr EXCEPT !.conditions = conds] /\ deployer' = cr'
                     ELSE cr' = cr /\ deployer' = [deployer EXCEPT !.conditions = conds]
                  /\ Finish("none", IF o = "ok" THEN "Config" ELSE o)
                  /\ daemonSets' = daemonSets
       ELSE LET ds == daemonSetForDeployer(deployer)
            IN \E o \in CreateOutcomes(LookupDaemonSet(ds.namespace, ds.name), F) :
                  /\ Log("Create", "DaemonSet", ds.name, <<>>, o)
                  /\ IF o = "ok"
                     THEN /\ daemonSets' = daemonSets \cup {ds}
                          /\ pc' = "getDeployment"
                          /\ result' = NoResult
                     ELSE /\ daemonSets' = daemonSets
                          /\ Finish("none", o)
                  /\ UNCHANGED <<cr, deployer>>
    /\ UNCHANGED <<deployments, images, stale, envBudget,
                   foundDeployment, err, atStart, events, removed>>

\* GetDeployment returning success when the lookup failed
GetDeployment_SwallowsError(F) ==
    /\ pc = "getDeployment"
    /\ LET found == LookupDeployment(lookupNamespace, deployer.name)
       IN \E o \in LookupOutcomes(found, F) :
             /\ Log("Get", "Deployment", deployer.name, <<>>, o)
             /\ IF o = "ok"
                THEN /\ foundDeployment' = CHOOSE d \in found : TRUE
                     /\ pc' = "checkSize"
                     /\ result' = NoResult
                ELSE IF o = "NotFound"
                THEN /\ foundDeployment' = NoDeployment
                     /\ pc' = "createDeployment"
                     /\ result' = NoResult
                ELSE /\ foundDeployment' = NoDeployment
                     /\ Finish("none", "none")
    /\ UNCHANGED <<cr, daemonSets, deployments, images, stale, envBudget, deployer,
                   err, atStart, events, removed>>

\* lines 237-240, 271-275: look the Deployment up
GetDeployment(F) ==
    /\ pc = "getDeployment"
    /\ LET found == LookupDeployment(lookupNamespace, deployer.name)
       IN \E o \in LookupOutcomes(found, F) :
             /\ Log("Get", "Deployment", deployer.name, <<>>, o)
             /\ IF o = "ok"
                THEN /\ foundDeployment' = CHOOSE d \in found : TRUE
                     /\ pc' = "checkSize"
                     /\ result' = NoResult
                ELSE IF o = "NotFound"
                THEN /\ foundDeployment' = NoDeployment
                     /\ pc' = "createDeployment"
                     /\ result' = NoResult
                ELSE /\ foundDeployment' = NoDeployment
                     /\ Finish("none", o)
    /\ UNCHANGED <<cr, daemonSets, deployments, images, stale, envBudget, deployer,
                   err, atStart, events, removed>>

\* lines 241-270: define the Deployment and create it; a successful create ends
\* the pass with a requeue after one minute
CreateDeployment(F) ==
    /\ pc = "createDeployment"
    /\ IF ~deploymentForDeployerOk
       THEN LET conds == SetStatusCondition(deployer.conditions,
                            Condition(typeAvailableDeployer, "False", "Reconciling"))
            IN \E o \in WriteOutcomes(F) :
                  /\ Log("StatusUpdate", "Deployer", "Available=False", conds, o)
                  /\ IF o = "ok"
                     THEN cr' = [cr EXCEPT !.conditions = conds] /\ deployer' = cr'
                     ELSE cr' = cr /\ deployer' = [deployer EXCEPT !.conditions = conds]
                  /\ Finish("none", IF o = "ok" THEN "Config" ELSE o)
                  /\ deployments' = deployments
       ELSE LET dep == deploymentForDeployer(deployer)
            IN \E o \in CreateOutcomes(LookupDeployment(dep.namespace, dep.name), F) :
                  /\ Log("Create", "Deployment", dep.name, <<>>, o)
                  /\ IF o = "ok"
                     THEN /\ deployments' = deployments \cup {dep}
                          /\ Finish("after", "none")
                     ELSE /\ deployments' = deployments
                          /\ Finish("none", o)
                  /\ UNCHANGED <<cr, deployer>>
    /\ UNCHANGED <<daemonSets, images, stale, envBudget,
                   foundDeployment, err, atStart, events, removed>>

\* outcomes of updating the Deployment read into foundDeployment
DeploymentUpdateOutcomes(F) ==
    LET stored == LookupDeployment(foundDeployment.namespace, foundDeployment.name)
    IN (IF stored = {} THEN {"NotFound"}
        ELSE IF foundDeployment \notin stored THEN {"Conflict"}
        ELSE {"ok"}) \cup (IF F THEN {"Error"} ELSE {})

\* ResizeDeployment going on to the status write after the update
ResizeDeployment_GoesOn(F) ==
    /\ pc = "checkSize"
    /\ LET size == deployer.size
       IN IF foundDeployment.replicas # size
          THEN \E o \in DeploymentUpdateOutcomes(F) :
                  /\ Log("Update", "Deployment", foundDeployment.name, <<>>, o)
                  /\ IF o = "ok"
                     THEN /\ deployments' = (deployments \ {foundDeployment})
                                 \cup {[foundDeployment EXCEPT !.replicas = size]}
                          /\ foundDeployment' = [foundDeployment EXCEPT !.replicas = size]
                          /\ err' = "none"
                          /\ pc' = "availableTrue"
                          /\ result' = NoResult
                     ELSE /\ deployments' = deployments
                          /\ foundDeployment' = [foundDeployment EXCEPT !.replicas = size]
                          /\ err' = o
                          /\ pc' = "resizeFailedRefetch"
                          /\ result' = NoResult
          ELSE /\ pc' = "availableTrue"
               /\ UNCHANGED <<deployments, foundDeployment, err, result, passLog>>
    /\ UNCHANGED <<cr, daemonSets, images, stale, envBudget, deployer,
                   atStart, events, removed>>

\* ResizeDeployment going on to the status write without comparing the sizes
ResizeDeployment_SkipsCheck(F) ==
    /\ pc = "checkSize"
    /\ pc' = "availableTrue"
    /\ UNCHANGED <<deployments, foundDeployment, err, result, passLog>>
    /\ UNCHANGED <<cr, daemonSets, images, stale, envBudget, deployer,
                   atStart, events, removed>>

\* lines 277-314: bring the Deployment's replicas to Spec.Size
ResizeDeployment(F) ==
    /\ pc = "checkSize"
    /\ LET size == deployer.size
       IN IF foundDeployment.replicas # size
          THEN \E o \in DeploymentUpdateOutcomes(F) :
                  /\ Log("Update", "Deployment", foundDeployment.name, <<>>, o)
                  /\ IF o = "ok"
                     THEN /\ deployments' = (deployments \ {foundDeployment})
                                 \cup {[foundDeployment EXCEPT !.replicas = size]}
                          /\ foundDeployment' = [foundDeployment EXCEPT !.replicas = size]
                          /\ err' = "none"
                          /\ Finish("immediate", "none")
                     ELSE /\ deployments' = deployments
                          /\ foundDeployment' = [foundDeployment EXCEPT !.replicas = size]
                          /\ err' = o
                          /\ pc' = "resizeFailedRefetch"
                          /\ result' = NoResult
          ELSE /\ pc' = "availableTrue"
               /\ UNCHANGED <<deployments, foundDeployment, err, result, passLog>>
    /\ UNCHANGED <<cr, daemonSets, images, stale, envBudget, deployer,
                   atStart, events, removed>>

\* lines 288-295: re-fetch the Deployer after the failed Deployment update
ResizeFailedRefetch(F) ==
    /\ pc = "resizeFailedRefetch"
    /\ \E o \in GetOutcomes(F) :
          /\ Log("Get", "Deployer", "", <<>>, o)
          /\ IF o = "ok"
             THEN /\ deployer' = cr
                  /\ stale' = FALSE
                  /\ pc' = "resizeFailedStatus"
                  /\ result' = NoResult
             ELSE /\ UNCHANGED <<deployer, stale>>
                  /\ Finish("none", o)
    /\ UNCHANGED <<cr, daemonSets, deployments, images, envBudget,
                   foundDeployment, err, atStart, events, removed>>

\* ResizeFailedStatus returning success once the condition is persisted
ResizeFailedStatus_SwallowsError(F) ==
    /\ pc = "resizeFailedStatus"
    /\ LET conds == SetStatusCondition(deployer.conditions,
                        Condition(typeAvailableDeployer, "False", "Resizing"))
       IN \E o \in WriteOutcomes(F) :
             /\ Log("StatusUpdate", "Deployer", "Available=False", conds, o)
             /\ IF o = "ok"
                THEN cr' = [cr EXCEPT !.conditions = conds] /\ deployer' = cr'
                ELSE cr' = cr /\ deployer' = [deployer EXCEPT !.conditions = conds]
             /\ Finish("none", IF o = "ok" THEN "none" ELSE o)
    /\ UNCHANGED <<daemonSets, deployments, images, stale, envBudget,
                   foundDeployment, err, atStart, events, removed>>

\* lines 297-307: record Available=False/Resizing and return the update's error
ResizeFailedStatus(F) ==
    /\ pc = "resizeFailedStatus"
    /\ LET conds == SetStatusCondition(deployer.conditions,
                        Condition(typeAvailableDeployer, "False", "Resizing"))
       IN \E o \in WriteOutcomes(F) :
             /\ Log("StatusUpdate", "Deployer", "Available=False", conds, o)
             /\ IF o = "ok"
                THEN cr' = [cr EXCEPT !.conditions = conds] /\ deployer' = cr'
                ELSE cr' = cr /\ deployer' = [deployer EXCEPT !.conditions = conds]
             /\ Finish("none", IF o = "ok" THEN err ELSE o)
    /\ UNCHANGED <<daemonSets, deployments, images, stale, envBudget,
                   foundDeployment, err, atStart, events, removed>>

\* SetAvailableTrue asking for a requeue after it persisted the condition
SetAvailableTrue_Requeues(F) ==
    /\ pc = "availableTrue"
    /\ LET conds == SetStatusCondition(deployer.conditions,
                        Condition(typeAvailableDeployer, "True", "Reconciling"))
       IN \E o \in WriteOutcomes(F) :
             /\ Log("StatusUpdate", "Deployer", "Available=True", conds, o)
             /\ IF o = "ok"
                THEN cr' = [cr EXCEPT !.conditions = conds] /\ deployer' = cr'
                ELSE cr' = cr /\ deployer' = [deployer EXCEPT !.conditions = conds]
             /\ Finish("immediate", IF o = "ok" THEN "none" ELSE o)
    /\ UNCHANGED <<daemonSets, deployments, images, stale, envBudget,
                   foundDeployment, err, atStart, events, removed>>

\* SetAvailableTrue recording Available=False
SetAvailableTrue_SetsFalse(F) ==
    /\ pc = "availableTrue"
    /\ LET conds == SetStatusCondition(deployer.conditions,
                        Condition(typeAvailableDeployer, "False", "Reconciling"))
       IN \E o \in WriteOutcomes(F) :
             /\ Log("StatusUpdate", "Deployer", "Available=False", conds, o)
             /\ IF o = "ok"
                THEN cr' = [cr EXCEPT !.conditions = conds] /\ deployer' = cr'
                ELSE cr' = cr /\ deployer' = [deployer EXCEPT !.conditions = conds]
             /\ Finish("none", IF o = "ok" THEN "none" ELSE o)
    /\ UNCHANGED <<daemonSets, deployments, images, stale, envBudget,
                   foundDeployment, err, atStart, events, removed>>

\* lines 316-326: record Available=True
SetAvailableTrue(F) ==
    /\ pc = "availableTrue"
    /\ LET conds == SetStatusCondition(deployer.conditions,
                        Condition(typeAvailableDeployer, "True", "Reconciling"))
       IN \E o \in WriteOutcomes(F) :
             /\ Log("StatusUpdate", "Deployer", "Available=True", conds, o)
             /\ IF o = "ok"
                THEN cr' = [cr EXCEPT !.conditions = conds] /\ deployer' = cr'
                ELSE cr' = cr /\ deployer' = [deployer EXCEPT !.conditions = conds]
             /\ Finish("none", IF o = "ok" THEN "none" ELSE o)
    /\ UNCHANGED <<daemonSets, deployments, images, stale, envBudget,
                   foundDeployment, err, atStart, events, removed>>

----------------------------------------------------------------------------
(* The world around the reconciler.  Q: it acts only between two passes. *)

Between(Q) == Q => pc \in {"idle", "done"}

localVars == <<pc, deployer, foundDeployment, err, result, passLog, atStart,
               events, removed>>

\* a user deletes the resource: the store marks it, or purges it at once when
\* no finalizer holds it
UserDelete(Q) ==
    /\ Between(Q)
    /\ Live(cr)
    /\ LET w == [cr EXCEPT !.deletionTimestamp = TRUE]
       IN /\ cr' = Stored(w)
          /\ daemonSets' = Cascade(w, daemonSets)
          /\ deployments' = Cascade(w, deployments)
    /\ stale' = TRUE
    /\ UNCHANGED <<images, envBudget>>
    /\ UNCHANGED localVars

\* the other controller removes its finalizer from the resource marked for deletion
OtherFinalizerRemoved(Q) ==
    /\ Between(Q)
    /\ cr.exists /\ cr.deletionTimestamp
    /\ ContainsFinalizer(cr, otherFinalizer)
    /\ LET w == RemoveFinalizer(cr, otherFinalizer)
       IN /\ cr' = Stored(w)
          /\ daemonSets' = Cascade(w, daemonSets)
          /\ deployments' = Cascade(w, deployments)
    /\ stale' = TRUE
    /\ UNCHANGED <<images, envBudget>>
    /\ UNCHANGED localVars

\* a user strips this controller's finalizer from the resource marked for deletion
FinalizerStripped(Q) ==
    /\ Between(Q)
    /\ cr.exists /\ cr.deletionTimestamp
    /\ ContainsFinalizer(cr, deployerFinalizer)
    /\ LET w == RemoveFinalizer(cr, deployerFinalizer)
       IN /\ cr' = Stored(w)
          /\ daemonSets' = Cascade(w, daemonSets)
          /\ deployments' = Cascade(w, deployments)
    /\ stale' = TRUE
    /\ UNCHANGED <<images, envBudget>>
    /\ UNCHANGED localVars

\* a user edits spec.size
UserChangeSize(Q) ==
    /\ Between(Q)
    /\ Live(cr)
    /\ envBudget > 0
    /\ \E s \in Sizes \ {cr.size} : cr' = [cr EXCEPT !.size = s]
    /\ envBudget' = envBudget - 1
    /\ stale' = TRUE
    /\ UNCHANGED <<daemonSets, deployments, images>>
    /\ UNCHANGED localVars

\* something else scales a Deployment (drift)
ScaleDeployment(Q) ==
    /\ Between(Q)
    /\ envBudget > 0
    /\ \E d \in deployments : \E r \in Sizes \ {d.replicas} :
          deployments' = (deployments \ {d}) \cup {[d EXCEPT !.replicas = r]}
    /\ envBudget' = envBudget - 1
    /\ UNCHANGED <<cr, daemonSets, images, stale>>
    /\ UNCHANGED localVars

----------------------------------------------------------------------------
(* Specifications *)

\* every store call may fail, and the world acts at any time
Next ==
    \/ FetchDeployer(TRUE)
    \/ InitStatus(TRUE)
    \/ RefetchAfterInit(TRUE)
    \/ EnsureFinalizer(TRUE)
    \/ MarkDegradedUnknown(TRUE)
    \/ doFinalizerOperationsForDeployer
    \/ RefetchBeforeDegradedTrue(TRUE)
    \/ MarkDegradedTrue(TRUE)
    \/ RemoveFinalizerAndUpdate(TRUE)
    \/ GetDaemonSet(TRUE)
    \/ CreateDaemonSet(TRUE)
    \/ GetDeployment(TRUE)
    \/ CreateDeployment(TRUE)
    \/ ResizeDeployment(TRUE)
    \/ ResizeFailedRefetch(TRUE)
    \/ ResizeFailedStatus(TRUE)
    \/ SetAvailableTrue(TRUE)
    \/ UserDelete(FALSE)
    \/ OtherFinalizerRemoved(FALSE)
    \/ FinalizerStripped(FALSE)
    \/ UserChangeSize(FALSE)
    \/ ScaleDeployment(FALSE)

Spec == Init /\ [][Next]_vars

\* the passes when no store call fails for reasons of the infrastructure
QuietPass ==
    \/ FetchDeployer(FALSE)
    \/ InitStatus(FALSE)
    \/ RefetchAfterInit(FALSE)
    \/ EnsureFinalizer(FALSE)
    \/ MarkDegradedUnknown(FALSE)
    \/ doFinalizerOperationsForDeployer
    \/ RefetchBeforeDegradedTrue(FALSE)
    \/ MarkDegradedTrue(FALSE)
    \/ RemoveFinalizerAndUpdate(FALSE)
    \/ GetDaemonSet(FALSE)
    \/ CreateDaemonSet(FALSE)
    \/ GetDeployment(FALSE)
    \/ CreateDeployment(FALSE)
    \/ ResizeDeployment(FALSE)
    \/ SetAvailableTrue(FALSE)

\* no infrastructure failure, the world acts between passes only, and passes keep
\* being dispatched
QuietNext ==
    \/ QuietPass
    \/ UserDelete(TRUE)
    \/ OtherFinalizerRemoved(TRUE)
    \/ FinalizerStripped(TRUE)
    \/ UserChangeSize(TRUE)
    \/ ScaleDeployment(TRUE)

QuietSpec == Init /\ [][QuietNext]_vars /\ WF_vars(QuietPass)

----------------------------------------------------------------------------
(* Reading the log of a pass *)

IsWrite(e) == e.verb \in {"Create", "Update", "StatusUpdate"}
Writes(log) == SelectSeq(log, IsWrite)
IsEvent(e) == e.verb = "Event"
InConditions(conds, c) == \E i \in 1..Len(conds) : conds[i] = c
IsStatusWrite(e, c) ==
    e.verb = "StatusUpdate" /\ e.kind = "Deployer" /\ InConditions(e.conds, c)
IsFinalizerRemoval(e) ==
    e.verb = "Update" /\ e.kind = "Deployer" /\ e.what = "RemoveFinalizer"
IsFinalizerAdd(e) ==
    e.verb = "Update" /\ e.kind = "Deployer" /\ e.what = "AddFinalizer"

AvailableUnknown == Condition(typeAvailableDeployer, "Unknown", "Reconciling")
AvailableTrue == Condition(typeAvailableDeployer, "True", "Reconciling")
DegradedUnknown == Condition(typeDegradedDeployer, "Unknown", "Finalizing")
DegradedTrue == Condition(typeDegradedDeployer, "True", "Finalizing")

AvailableFalse == Condition(typeAvailableDeployer, "False", "Reconciling")
AvailableFalseResizing == Condition(typeAvailableDeployer, "False", "Resizing")

IsChildLookup(e) == e.verb = "Get" /\ e.kind \in {"DaemonSet", "Deployment"}
IsCreate(e, kind) == e.verb = "Create" /\ e.kind = kind
IsDeploymentUpdate(e) == e.verb = "Update" /\ e.kind = "Deployment"
IsDeployerGet(e) == e.verb = "Get" /\ e.kind = "Deployer"
Last(log) == log[Len(log)]

\* the finished pass returned an error / returned success without a requeue
ReturnsError == result.err \notin {"none", "unset"}
ReturnsSuccess == result = Result("none", "none")

\* the pass read the resource, and read it without any condition
ReadEmptyConditions == atStart.read.exists /\ Len(atStart.read.conditions) = 0

----------------------------------------------------------------------------
(* Claims *)

\* C1: for a resource whose condition set is empty, the first write a pass issues
\* is the status update carrying the single condition Available=Unknown/Reconciling,
\* any further write of the pass comes only after that one succeeded, and a stored
\* resource without conditions has neither the finalizer nor a child workload.
C1_StatusInitializedFirst ==
    /\ ReadEmptyConditions =>
          LET w == Writes(passLog)
          IN /\ Len(w) >= 1 => /\ w[1].verb = "StatusUpdate"
                               /\ w[1].kind = "Deployer"
                               /\ w[1].conds = <<AvailableUnknown>>
             /\ Len(w) >= 2 => w[1].res = "ok"
    /\ (cr.exists /\ Len(cr.conditions) = 0) =>
          /\ ~ContainsFinalizer(cr, deployerFinalizer)
          /\ OwnedDaemonSets = {}
          /\ OwnedDeployments = {}

\* C1 witness: a pass that read no condition has initialized the status and then
\* issued its next write
C1_Witness == ReadEmptyConditions /\ Len(Writes(passLog)) >= 2

Converged ==
    /\ cr.exists
    /\ OwnedDaemonSets # {}
    /\ OwnedDeployments # {}
    /\ \A d \in OwnedDeployments : d.replicas = cr.size
    /\ HasCondition(cr, typeAvailableDeployer, "True")

\* C3 as claimed: with the configuration complete, no failing store call and passes
\* being dispatched, a resource that nobody deletes reaches the converged state,
\* whatever its name.
C3_EventuallyConverged ==
    <>(Converged \/ ~Live(cr) \/ images # ImageEnvVars)

\* C4 as claimed: a pass never issues a create for a child workload that exists
\* already (the lookup finds what an earlier pass created).
C4_NoCreateOfExistingChild ==
    \A i \in 1..Len(passLog) :
        passLog[i].verb = "Create" => passLog[i].res # "AlreadyExists"

\* C5 as claimed: a pass that starts with the ServiceWorkload's replica count
\* different from spec.size updates the ServiceWorkload and returns an immediate
\* requeue with no error.
C5_DriftCorrectedByNextPass ==
    (pc = "done" /\ atStart.drift) =>
        /\ \E i \in 1..Len(passLog) :
              /\ passLog[i].verb = "Update"
              /\ passLog[i].kind = "Deployment"
              /\ passLog[i].res = "ok"
        /\ result = Result("immediate", "none")

\* C6 as claimed: the reconciler adds the finalizer only to a resource that is not
\* marked for deletion, and never after it has removed it.
C6_FinalizerAddedOnlyWhenLive ==
    (Len(passLog) > 0 /\ IsFinalizerAdd(passLog[Len(passLog)])) =>
        /\ ~deployer.deletionTimestamp
        /\ ~removed

\* C7 as claimed: the deletion event is sent at most once for a resource instance.
C7_AtMostOneDeletionEvent == events <= 1

\* C8: a child workload leaves the store only in the step in which the store purges
\* its owner (owner-reference cascade); no step of the reconciler deletes one.
C8_ChildrenLeaveOnlyByCascade ==
    [][(\/ \E d \in daemonSets : LookupDaemonSet(d.namespace, d.name)' = {}
        \/ \E d \in deployments : LookupDeployment(d.namespace, d.name)' = {})
       => (cr.exists /\ ~cr'.exists)]_vars

\* C8 witness: the resource is marked for deletion with the finalizer present, the
\* cleanup has run, and both child workloads are still stored
C8_Witness ==
    /\ cr.exists /\ cr.deletionTimestamp
    /\ ContainsFinalizer(cr, deployerFinalizer)
    /\ pc = "refetchFinalizing"
    /\ OwnedDaemonSets # {}
    /\ OwnedDeployments # {}

\* C9: a pass that issues the finalizer-removing update has before it, in this
\* order and each successful: Degraded=Unknown/Finalizing persisted, the deletion
\* event, the re-fetch, Degraded=True/Finalizing persisted.
C9_RemovalOnlyAfterCleanup ==
    \A i \in 1..Len(passLog) :
        IsFinalizerRemoval(passLog[i]) =>
            \E d \in 1..(i - 1) :
                /\ IsStatusWrite(passLog[d], DegradedTrue) /\ passLog[d].res = "ok"
                /\ \E c \in 1..(d - 1) :
                      /\ IsDeployerGet(passLog[c]) /\ passLog[c].res = "ok"
                      /\ \E b \in 1..(c - 1) :
                            /\ IsEvent(passLog[b])
                            /\ \E a \in 1..(b - 1) :
                                  /\ IsStatusWrite(passLog[a], DegradedUnknown)
                                  /\ passLog[a].res = "ok"

\* C9 witness: a pass has persisted the removal of the finalizer
C9_Witness ==
    \E i \in 1..Len(passLog) : IsFinalizerRemoval(passLog[i]) /\ passLog[i].res = "ok"

\* C10 as claimed: a pass that reads the resource marked for deletion without the
\* finalizer issues no write, sends no event and returns no requeue and no error.
C10_DeletedWithoutFinalizerIsNoOp ==
    (/\ pc = "done"
     /\ atStart.read.exists
     /\ atStart.read.deletionTimestamp
     /\ ~ContainsFinalizer(atStart.read, deployerFinalizer)) =>
        /\ Len(Writes(passLog)) = 0
        /\ \A i \in 1..Len(passLog) : ~IsEvent(passLog[i])
        /\ result = Result("none", "none")

\* C11 as claimed: a pass that creates the AgentWorkload ends with that create; no
\* ServiceWorkload lookup or create, no update and no status write follows it in
\* the pass, and the pass returns no requeue and no error.
C11_AgentWorkloadCreateEndsPass ==
    \A i \in 1..Len(passLog) :
        (IsCreate(passLog[i], "DaemonSet") /\ passLog[i].res = "ok") =>
            /\ i = Len(passLog)
            /\ pc = "done" => ReturnsSuccess

\* C12: a pass that creates the ServiceWorkload creates it with replicas equal to
\* the spec.size it read, and the create is the last call of the pass: no size
\* check, no update and no status write follows it, the only status write the pass
\* can hold is the status initialization, and the pass returns a requeue after one
\* minute (neither immediate nor none) with no error.
C12_ServiceWorkloadCreateRequeuesAfter ==
    /\ [](\A i \in 1..Len(passLog) :
            (IsCreate(passLog[i], "Deployment") /\ passLog[i].res = "ok") =>
                /\ i = Len(passLog)
                /\ pc = "done"
                /\ result = Result("after", "none")
                /\ \A j \in 1..Len(passLog) :
                      /\ ~IsDeploymentUpdate(passLog[j])
                      /\ passLog[j].verb = "StatusUpdate" =>
                            passLog[j].conds = <<AvailableUnknown>>)
    /\ [][(pc = "createDeployment" /\ deployments' # deployments) =>
             \E d \in deployments' \ deployments :
                /\ d.replicas = deployer.size
                /\ deployer.size = cr.size \/ stale]_vars

\* C12 witness: a pass has created the ServiceWorkload with a replica count other
\* than zero and has finished
C12_Witness ==
    /\ pc = "done"
    /\ IsCreate(Last(passLog), "Deployment") /\ Last(passLog).res = "ok"
    /\ \E d \in deployments : d.replicas > 0 /\ d.replicas = deployer.size

\* the pass found both child workloads and attempted neither a create nor a
\* replica update
FoundBothNothingToDo ==
    /\ \E i \in 1..Len(passLog) :
          passLog[i].verb = "Get" /\ passLog[i].kind = "DaemonSet" /\ passLog[i].res = "ok"
    /\ \E i \in 1..Len(passLog) :
          passLog[i].verb = "Get" /\ passLog[i].kind = "Deployment" /\ passLog[i].res = "ok"
    /\ \A i \in 1..Len(passLog) :
          passLog[i].verb # "Create" /\ ~IsDeploymentUpdate(passLog[i])

\* C13: a pass on a live resource that found both child workloads, created none
\* and had no replica drift to correct ends with the status update that sets
\* Available=True with reason Reconciling; when the store accepts it the condition
\* is stored and the pass returns no requeue and no error, and when the store
\* rejects it the pass returns that error.
C13_SteadyStateReportsAvailable ==
    (pc = "done" /\ Live(atStart.read) /\ FoundBothNothingToDo) =>
        LET e == Last(passLog)
        IN /\ IsStatusWrite(e, AvailableTrue)
           /\ e.res = "ok" => /\ ReturnsSuccess
                              /\ cr.exists => InConditions(cr.conditions, AvailableTrue)
           /\ e.res # "ok" => result = Result("none", e.res)

\* C13 witness: such a pass has persisted Available=True
C13_Witness ==
    /\ pc = "done" /\ Live(atStart.read) /\ FoundBothNothingToDo
    /\ IsStatusWrite(Last(passLog), AvailableTrue) /\ Last(passLog).res = "ok"

\* the status initialization of the pass failed: its status update was rejected,
\* or the re-fetch after it failed
InitStatusUpdateFailed ==
    /\ ReadEmptyConditions
    /\ Len(passLog) >= 2
    /\ passLog[2].verb = "StatusUpdate" /\ passLog[2].res # "ok"
InitRefetchFailed ==
    /\ ReadEmptyConditions
    /\ Len(passLog) >= 3
    /\ passLog[2].verb = "StatusUpdate" /\ passLog[2].res = "ok"
    /\ IsDeployerGet(passLog[3]) /\ passLog[3].res # "ok"

\* the pass stopped at the failed step: it is over with an error and no requeue,
\* and its log holds no finalizer update and no child lookup, create or update
AbandonedAt(n) ==
    /\ pc = "done"
    /\ Len(passLog) = n
    /\ ReturnsError /\ result.requeue = "none"
    /\ \A i \in 1..Len(passLog) :
          /\ ~IsFinalizerAdd(passLog[i]) /\ ~IsFinalizerRemoval(passLog[i])
          /\ ~IsChildLookup(passLog[i])
          /\ passLog[i].verb # "Create" /\ ~IsDeploymentUpdate(passLog[i])

\* C14 as claimed: when the status initialization fails, at the status update or at
\* the re-fetch after it, the pass is abandoned with an error and the stored
\* resource holds the conditions it held when the pass began.
C14_FailedInitLeavesStoreUnchanged ==
    /\ InitStatusUpdateFailed =>
          AbandonedAt(2) /\ (cr.exists => cr.conditions = atStart.read.conditions)
    /\ InitRefetchFailed =>
          AbandonedAt(3) /\ (cr.exists => cr.conditions = atStart.read.conditions)

\* C14 as amended: when the status update of the initialization is rejected, the
\* pass is abandoned with an error and the stored conditions are the ones the pass
\* read; when the update succeeded and the re-fetch after it fails, the pass is
\* abandoned with an error too, and the stored resource carries the single
\* condition Available=Unknown/Reconciling that the pass persisted.
C14_FailedInitAbandonsPass ==
    /\ InitStatusUpdateFailed =>
          AbandonedAt(2) /\ (cr.exists => cr.conditions = atStart.read.conditions)
    /\ InitRefetchFailed =>
          AbandonedAt(3) /\ (cr.exists => cr.conditions = <<AvailableUnknown>>)

\* C14 witness: the re-fetch after a persisted status initialization has failed
\* and the resource is still stored
C14_Witness == InitRefetchFailed /\ pc = "done" /\ cr.exists

\* a status update that sets Available=False/Reconciling comes after call i
AvailableFalseWrittenAfter(i) ==
    \E j \in (i + 1)..Len(passLog) : IsStatusWrite(passLog[j], AvailableFalse)

\* C15 as claimed: a pass whose lookup of a child workload fails for another reason
\* than not-found returns an error and has issued, after the lookup, the status
\* update that sets Available=False with reason Reconciling.
C15_LookupFailureRecorded ==
    \A i \in 1..Len(passLog) :
        (pc = "done" /\ IsChildLookup(passLog[i])
                     /\ passLog[i].res \notin {"ok", "NotFound"}) =>
            ReturnsError /\ AvailableFalseWrittenAfter(i)

\* C16 as claimed: a pass whose create of a child workload is rejected returns the
\* error and has issued, after the create, the status update that sets
\* Available=False with reason Reconciling.
C16_CreateFailureRecorded ==
    \A i \in 1..Len(passLog) :
        (pc = "done" /\ passLog[i].verb = "Create" /\ passLog[i].res # "ok") =>
            ReturnsError /\ AvailableFalseWrittenAfter(i)

\* C17: a pass whose Deployment replica update fails leaves the stored Deployments
\* as they were and re-fetches the Deployer next; when the re-fetch succeeds it
\* issues the status update that sets Available=False with reason Resizing on the
\* copy just read, and when the store accepts that update the condition is stored
\* and the pass returns the error of the replica update with no requeue.
C17_ResizeFailureRecorded ==
    /\ [](\A i \in 1..Len(passLog) :
            (pc = "done" /\ IsDeploymentUpdate(passLog[i]) /\ passLog[i].res # "ok") =>
                /\ Len(passLog) > i
                /\ IsDeployerGet(passLog[i + 1])
                /\ passLog[i + 1].res = "ok" =>
                      /\ Len(passLog) = i + 2
                      /\ IsStatusWrite(passLog[i + 2], AvailableFalseResizing)
                      /\ passLog[i + 2].res = "ok" =>
                            /\ result = Result("none", passLog[i].res)
                            /\ cr.exists =>
                                  InConditions(cr.conditions, AvailableFalseResizing))
    /\ [][(pc = "checkSize" /\ pc' = "resizeFailedRefetch") =>
             deployments' = deployments]_vars
    /\ [][(pc = "resizeFailedStatus" /\ passLog' # passLog) =>
             Last(passLog').conds =
                 SetStatusCondition(deployer.conditions, AvailableFalseResizing)]_vars

\* C17 witness: after a failed replica update the pass has persisted
\* Available=False/Resizing and returned the update's error
C17_Witness ==
    /\ pc = "done"
    /\ Len(passLog) > 2
    /\ IsDeploymentUpdate(passLog[Len(passLog) - 2])
    /\ passLog[Len(passLog) - 2].res # "ok"
    /\ IsStatusWrite(Last(passLog), AvailableFalseResizing)
    /\ Last(passLog).res = "ok"
    /\ result = Result("none", passLog[Len(passLog) - 2].res)

\* the finished pass stopped at the removal of the finalizer: RemoveFinalizer found
\* nothing to remove once Degraded=True was persisted, or the update that persists
\* the removal was rejected
RemoveFinalizerFailed ==
    /\ pc = "done"
    /\ Len(passLog) > 0
    /\ IsStatusWrite(Last(passLog), DegradedTrue) /\ Last(passLog).res = "ok"
PersistRemovalFailed ==
    /\ pc = "done"
    /\ Len(passLog) > 0
    /\ IsFinalizerRemoval(Last(passLog)) /\ Last(passLog).res # "ok"

\* C18 as claimed: in the deletion path, a pass in which removing the finalizer
\* fails, or persisting the removal fails, ends with an immediate requeue in both
\* cases.
C18_RemovalFailureRequeuesImmediately ==
    (RemoveFinalizerFailed \/ PersistRemovalFailed) => result.requeue = "immediate"

\* C19 as claimed: no pass issues a status update that sets Available=False after
\* one of its writes was rejected with Conflict, the Deployment replica update
\* included.
C19_ConflictNotSurfaced ==
    \A i \in 1..Len(passLog) :
        (IsWrite(passLog[i]) /\ passLog[i].res = "Conflict") =>
            \A j \in (i + 1)..Len(passLog) :
                /\ ~IsStatusWrite(passLog[j], AvailableFalse)
                /\ ~IsStatusWrite(passLog[j], AvailableFalseResizing)

\* a store call of the pass failed, other than a lookup answering NotFound: the
\* first fetch of the resource, or the lookup of a child workload
IsExpectedNotFound(i) ==
    /\ passLog[i].res = "NotFound"
    /\ (i = 1 /\ IsDeployerGet(passLog[i])) \/ IsChildLookup(passLog[i])
SomeCallFailed ==
    \E i \in 1..Len(passLog) :
        /\ ~IsEvent(passLog[i])
        /\ passLog[i].res # "ok"
        /\ ~IsExpectedNotFound(i)

\* C20: a pass in which a store call (get, create, update, status update) failed,
\* other than a lookup answering NotFound, returns an error and never a success
\* result.
C20_NoErrorSwallowed ==
    (pc = "done" /\ SomeCallFailed) => ReturnsError

\* C20 witness: a pass went on after a failed call and returned an error at its end
C20_Witness ==
    /\ pc = "done" /\ ReturnsError
    /\ \E i \in 1..(Len(passLog) - 1) : passLog[i].res \notin {"ok", "NotFound"}

\* the finished pass stopped at a child workload it could not define: only then
\* does a pass end with the status update that sets Available=False/Reconciling
DefinitionFailed ==
    /\ pc = "done"
    /\ Len(passLog) > 0
    /\ IsStatusWrite(Last(passLog), AvailableFalse)

\* C21 as claimed: a pass that cannot define a child workload because an image
\* variable is missing has created no child workload, ends with the status update
\* that sets Available=False/Reconciling, returns the configuration error once
\* that update is accepted, and has issued no other write after its status
\* initialization and finalizer registration.
C21_MissingImageCreatesNothing ==
    DefinitionFailed =>
        /\ \A i \in 1..Len(passLog) : passLog[i].verb # "Create"
        /\ \A i \in 1..Len(passLog) : ~IsDeploymentUpdate(passLog[i])
        /\ Last(passLog).res = "ok" => result = Result("none", "Config")

----------------------------------------------------------------------------
(* Replayed passes *)

\* a store call fails for a reason of the infrastructure
InfrastructureFailure ==
    /\ passLog' # passLog
    /\ Last(passLog').res = "Error"

\* the steps of a pass; the store calls a finalization pass issues may fail for
\* reasons of the infrastructure
ReplayPass ==
    \/ FetchDeployer(TRUE)
    \/ InitStatus(TRUE)
    \/ RefetchAfterInit(TRUE)
    \/ EnsureFinalizer(TRUE)
    \/ MarkDegradedUnknown(TRUE)
    \/ doFinalizerOperationsForDeployer
    \/ RefetchBeforeDegradedTrue(TRUE)
    \/ MarkDegradedTrue(TRUE)
    \/ RemoveFinalizerAndUpdate(TRUE)
    \/ GetDaemonSet(FALSE)
    \/ CreateDaemonSet(FALSE)
    \/ GetDeployment(FALSE)
    \/ CreateDeployment(FALSE)
    \/ ResizeDeployment(FALSE)
    \/ SetAvailableTrue(FALSE)

\* the resource is deleted, and the other finalizer removed, between two passes
ReplayNext ==
    \/ ReplayPass
    \/ UserDelete(TRUE)
    \/ OtherFinalizerRemoved(TRUE)

\* passes are replayed from the top for ever, and the store calls succeed in the
\* end: from some point on none fails for a reason of the infrastructure
ReplaySpec ==
    /\ Init
    /\ [][ReplayNext]_vars
    /\ WF_vars(ReplayPass)
    /\ <>[][~InfrastructureFailure]_vars

\* the resource is marked for deletion and holds the finalizer
Finalizing ==
    cr.exists /\ cr.deletionTimestamp /\ ContainsFinalizer(cr, deployerFinalizer)
\* the finalizer is gone: the resource is purged, or it is still stored (another
\* finalizer holds it) with Degraded=True/Finalizing as its Degraded condition
Finalized ==
    \/ ~cr.exists
    \/ /\ ~ContainsFinalizer(cr, deployerFinalizer)
       /\ InConditions(cr.conditions, DegradedTrue)

\* C22: when passes are replayed from the top after each failure and the store
\* calls of the finalizer sequence succeed again and again, a resource marked for
\* deletion with the finalizer present gets its finalizer removed; when it is
\* removed, the Degraded condition persisted last is Degraded=True.
C22_FinalizationReentrant == Finalizing ~> Finalized

\* C22 witness: the finalizer sequence was replayed (the deletion event went out
\* twice) and a pass has then persisted the removal
C22_Witness ==
    /\ events >= 2
    /\ pc = "done"
    /\ IsFinalizerRemoval(Last(passLog)) /\ Last(passLog).res = "ok"
    /\ Len(SelectSeq(passLog, IsEvent)) = 1

----------------------------------------------------------------------------
(* The registration with the dispatch layer *)

\* SetupWithManager: the kind reconciled, and the kinds of owned objects watched
ForKind == "Deployer"
OwnsKinds == {"Deployment"}

\* a change of an object of that kind enqueues a pass for the Deployer it belongs to
Enqueues(kind) == kind = ForKind \/ kind \in OwnsKinds

\* someone deletes the DaemonSet of the resource
DaemonSetLost(Q) ==
    /\ Between(Q)
    /\ Live(cr)
    /\ \E d \in OwnedDaemonSets : daemonSets' = daemonSets \ {d}
    /\ UNCHANGED <<cr, deployments, images, stale, envBudget>>
    /\ UNCHANGED localVars

\* the passes of QuietSpec, in a world where the DaemonSet can be lost as well
WatchNext ==
    \/ QuietNext
    \/ DaemonSetLost(TRUE)

WatchSpec == Init /\ [][WatchNext]_vars /\ WF_vars(QuietPass)

\* C23 as claimed: whenever the world changes or removes a child workload of the
\* live resource, DaemonSet or Deployment, the registration enqueues a pass for
\* the resource.
C23_ChildChangeEnqueuesPass ==
    [][(Live(cr) /\ cr' = cr /\ UNCHANGED localVars) =>
          /\ daemonSets' # daemonSets => Enqueues("DaemonSet")
          /\ deployments' # deployments => Enqueues("Deployment")]_vars

\* C24: every stored child workload, DaemonSet or Deployment, carries the
\* controller reference of the resource whose pass created it and lives in that
\* resource's namespace; the create that stores a child stores it with the
\* reference to the Deployer the pass read.
C24_ChildrenOwnedByTheirCreator ==
    /\ [](\A c \in daemonSets \cup deployments :
             c.owner = cr.name /\ c.namespace = cr.namespace)
    /\ [][\A c \in (daemonSets' \ daemonSets) \cup (deployments' \ deployments) :
             passLog' # passLog => c.owner = deployer.name]_vars

\* C24 witness: both child workloads of the resource are stored
C24_Witness == OwnedDaemonSets # {} /\ OwnedDeployments # {}

\* the step is a step of the reconciler
PassStep == pc' # pc \/ passLog' # passLog

\* C25: no step of the reconciler changes the stored name, namespace, spec.size or
\* deletionTimestamp of the resource: its writes change status.conditions and
\* metadata.finalizers only, and of the finalizers only its own.
C25_OnlyStatusAndFinalizersWritten ==
    [][PassStep =>
          /\ cr'.name = cr.name
          /\ cr'.namespace = cr.namespace
          /\ cr'.size = cr.size
          /\ cr'.exists =>
                /\ cr'.deletionTimestamp = cr.deletionTimestamp
                /\ cr'.finalizers \ {deployerFinalizer} = cr.finalizers \ {deployerFinalizer}
          /\ cr'.exists \/ ~cr.exists \/ Purged(RemoveFinalizer(cr, deployerFinalizer))]_vars

\* C25 witness: a pass has written the finalizer and the status of a resource
\* whose spec.size is not zero
C25_Witness ==
    /\ cr.exists /\ cr.size > 0
    /\ \E i \in 1..Len(passLog) : IsFinalizerAdd(passLog[i]) /\ passLog[i].res = "ok"
    /\ \E i \in 1..Len(passLog) :
          passLog[i].verb = "StatusUpdate" /\ passLog[i].res = "ok"

\* the call a step of the pass issues, and what it is
Issued == Last(passLog')
IssuesChildWrite ==
    /\ passLog' # passLog
    /\ Issued.verb = "Create" \/ IsDeploymentUpdate(Issued)
IssuesAvailableWrite ==
    /\ passLog' # passLog
    /\ Issued.verb = "StatusUpdate"
    /\ Issued.what \in {"Available=Unknown", "Available=False", "Available=True"}
\* the pass is under way and its latest read showed the resource marked for deletion
ObservedDeletion == pc \notin {"idle", "done"} /\ deployer.deletionTimestamp
\* the finalizer was stored when the pass read the resource, or the pass stored it
FinalizerPersisted ==
    \/ ContainsFinalizer(atStart.read, deployerFinalizer)
    \/ \E i \in 1..Len(passLog) : IsFinalizerAdd(passLog[i]) /\ passLog[i].res = "ok"

\* a child create or replica update is issued only when the latest read showed the
\* resource live and the finalizer is attached and persisted
ChildWritesGated ==
    IssuesChildWrite =>
        /\ ~deployer.deletionTimestamp
        /\ ContainsFinalizer(deployer, deployerFinalizer)
        /\ FinalizerPersisted

\* C26 as claimed: child writes are gated, and a pass whose latest read showed the
\* resource marked for deletion issues no child create or update and no status
\* update that sets an Available condition.
C26_NoAvailableWriteWhenDeleting ==
    [][/\ ChildWritesGated
       /\ ObservedDeletion => ~IssuesChildWrite /\ ~IssuesAvailableWrite]_vars

\* C26 as amended: child writes are gated, and a pass whose latest read showed the
\* resource marked for deletion issues no child create or update; the only status
\* updates setting an Available condition it issues are the status initialization
\* Available=Unknown of a resource without conditions, which comes before the
\* deletion check, and Available=False/Resizing after a failed replica update,
\* whose re-fetch is not checked for deletion.
C26_ConvergenceWritesGated ==
    [][/\ ChildWritesGated
       /\ ObservedDeletion =>
             /\ ~IssuesChildWrite
             /\ IssuesAvailableWrite =>
                   \/ /\ pc = "initStatus"
                      /\ Len(deployer.conditions) = 0
                      /\ Issued.conds = <<AvailableUnknown>>
                   \/ /\ pc = "resizeFailedStatus"
                      /\ IsStatusWrite(Issued, AvailableFalseResizing)]_vars

\* C26 witness: a pass that read the resource marked for deletion has initialized
\* the status and then taken the deletion branch
C26_Witness ==
    /\ deployer.deletionTimestamp
    /\ atStart.read.deletionTimestamp
    /\ \E i \in 1..Len(passLog) : passLog[i].what = "Available=Unknown"
    /\ \E i \in 1..Len(passLog) : IsStatusWrite(passLog[i], DegradedUnknown)

\* the step of the convergence sequence call i of the pass belongs to: 1 DaemonSet
\* existence, 2 Deployment existence, 3 drift correction, 4 steady-state status;
\* 0 for what comes before them (fetch, status initialization, finalizer, deletion)
RECURSIVE StepOf(_)
StepOf(i) ==
    LET e == passLog[i]
    IN IF e.kind = "DaemonSet" THEN 1
       ELSE IF e.kind = "Deployment" /\ e.verb \in {"Get", "Create"} THEN 2
       ELSE IF IsDeploymentUpdate(e) THEN 3
       ELSE IF e.verb = "StatusUpdate" /\ e.what = "Available=True" THEN 4
       ELSE IF e.verb = "StatusUpdate" /\ e.what = "Available=False" THEN StepOf(i - 1)
       ELSE IF IsDeployerGet(e) /\ i > 1 /\ IsDeploymentUpdate(passLog[i - 1]) THEN 3
       ELSE 0

\* call i failed, or made the pass ask for a requeue
EndsItsStep(i) ==
    \/ passLog[i].res # "ok" /\ ~IsExpectedNotFound(i)
    \/ passLog[i].res = "ok" /\ IsDeploymentUpdate(passLog[i])
    \/ passLog[i].res = "ok" /\ IsCreate(passLog[i], "Deployment")

\* C27: the calls of a pass come in the order DaemonSet existence, Deployment
\* existence, drift correction, steady-state status; after a call that failed, or
\* that made the pass ask for a requeue, no call of a later step is issued (a
\* successful replica update is the last call of its pass, which returns an
\* immediate requeue and writes no Available condition).
C27_StepsInOrderAndShortCircuit ==
    \A i \in 1..Len(passLog) :
        /\ i > 1 => StepOf(i - 1) <= StepOf(i)
        /\ EndsItsStep(i) =>
              /\ \A j \in (i + 1)..Len(passLog) : StepOf(j) = StepOf(i)
              /\ passLog[i].res = "ok" =>
                    /\ i = Len(passLog)
                    /\ pc = "done"
                    /\ result.requeue = IF IsDeploymentUpdate(passLog[i])
                                        THEN "immediate" ELSE "after"
                    /\ result.err = "none"

\* C27 witness: a pass that went through all four steps' lookups has updated the
\* replica count and returned an immediate requeue
C27_Witness ==
    /\ pc = "done"
    /\ IsDeploymentUpdate(Last(passLog)) /\ Last(passLog).res = "ok"
    /\ result = Result("immediate", "none")

\* call i of the pass is a write to the Deployer (update or status update)
IsDeployerWrite(e) == e.kind = "Deployer" /\ e.verb \in {"Update", "StatusUpdate"}

\* C28 as claimed: in a pass, a write to the Deployer that comes after an earlier
\* successful write to the Deployer has, between the two, a successful read of
\* the Deployer.
C28_FreshReadBetweenWrites ==
    \A i, j \in 1..Len(passLog) :
        (/\ i < j
         /\ IsDeployerWrite(passLog[i]) /\ passLog[i].res = "ok"
         /\ IsDeployerWrite(passLog[j])) =>
            \E k \in (i + 1)..(j - 1) :
                IsDeployerGet(passLog[k]) /\ passLog[k].res = "ok"

\* no two conditions of the sequence have the same type
UniqueTypes(conds) ==
    \A i \in 1..Len(conds) : \A j \in 1..Len(conds) :
        conds[i].type = conds[j].type => i = j

\* C29: the stored condition set, the one the pass holds in memory and the one of
\* every status update issued hold at most one condition per type, over any
\* sequence of passes.
C29_OneConditionPerType ==
    /\ UniqueTypes(cr.conditions)
    /\ UniqueTypes(deployer.conditions)
    /\ \A i \in 1..Len(passLog) : UniqueTypes(passLog[i].conds)

\* C29 witness: the stored set holds Available and Degraded, and Degraded=True has
\* replaced the Degraded=Unknown written earlier in the pass
C29_Witness ==
    /\ Len(cr.conditions) = 2
    /\ InConditions(cr.conditions, DegradedTrue)
    /\ \E i \in 1..Len(cr.conditions) : cr.conditions[i].type = "Available"
    /\ \E i \in 1..Len(passLog) : IsStatusWrite(passLog[i], DegradedUnknown)

\* the initial read of the pass failed
InitialReadFailed == Len(passLog) >= 1 /\ passLog[1].res # "ok"

\* C30: a pass whose initial read of the Deployer fails issues no further call,
\* writes nothing to the store and emits no event; it returns success without
\* requeue when the read returned NotFound, and the read's error otherwise.
C30_FailedInitialReadEndsPass ==
    /\ [](InitialReadFailed =>
             /\ Len(passLog) = 1
             /\ pc = "done"
             /\ result = IF passLog[1].res = "NotFound"
                         THEN Result("none", "none")
                         ELSE Result("none", passLog[1].res))
    /\ [][(passLog' # passLog /\ Len(passLog') = 1 /\ passLog'[1].res # "ok")
          => UNCHANGED <<cr, daemonSets, deployments, events>>]_vars

\* C30 witness: a pass for a Deployer that is gone has ended on the NotFound of
\* its initial read
C30_Witness ==
    /\ pc = "done"
    /\ ~cr.exists
    /\ passLog = <<Op("Get", "Deployer", "", <<>>, "NotFound")>>
    /\ result = Result("none", "none")

\* the step issues the status update that sets Available=True
IssuesAvailableTrue ==
    /\ passLog' # passLog
    /\ Issued.verb = "StatusUpdate" /\ Issued.what = "Available=True"

\* the pass got past the DaemonSet existence step without error: its lookup found
\* the DaemonSet, or found none and the create succeeded
PastDaemonSetStep ==
    \E i \in 1..Len(passLog) :
        /\ IsChildLookup(passLog[i]) /\ passLog[i].kind = "DaemonSet"
        /\ \/ passLog[i].res = "ok"
           \/ /\ passLog[i].res = "NotFound"
              /\ i < Len(passLog)
              /\ IsCreate(passLog[i + 1], "DaemonSet") /\ passLog[i + 1].res = "ok"

\* the pass found the Deployment: its lookup succeeded
FoundTheDeployment ==
    \E i \in 1..Len(passLog) :
        /\ IsChildLookup(passLog[i]) /\ passLog[i].kind = "Deployment"
        /\ passLog[i].res = "ok"

\* C31: the status update setting Available=True is issued only by a pass that got
\* past the DaemonSet existence step without error and found the Deployment stored
\* with a replica count equal to the size of the Deployer it read; a pass that
\* issued a Deployment create or a Deployment update issues no such status update.
C31_AvailableTrueOnlyWhenConverged ==
    [][IssuesAvailableTrue =>
          /\ PastDaemonSetStep
          /\ FoundTheDeployment
          /\ foundDeployment # NoDeployment
          /\ foundDeployment.replicas = deployer.size
          /\ \A i \in 1..Len(passLog) :
                /\ ~IsCreate(passLog[i], "Deployment")
                /\ ~IsDeploymentUpdate(passLog[i])]_vars

\* C31 witness: a pass that found the Deployment with one replica, the size of the
\* Deployer it read, has persisted Available=True
C31_Witness ==
    /\ pc = "done"
    /\ Last(passLog).what = "Available=True" /\ Last(passLog).res = "ok"
    /\ foundDeployment.replicas = 1 /\ deployer.size = 1
    /\ InConditions(cr.conditions, AvailableTrue)

\* the condition set holds a condition of type Degraded
HoldsDegraded(conds) ==
    \E i \in 1..Len(conds) : conds[i].type = typeDegradedDeployer

\* the step issues a status update whose condition set holds a Degraded condition
IssuesDegradedWrite ==
    /\ passLog' # passLog
    /\ Issued.verb = "StatusUpdate" /\ HoldsDegraded(Issued.conds)

\* C32: a status update holding a Degraded condition is issued only while the copy
\* of the Deployer the pass holds is marked for deletion; the one setting
\* Degraded=Unknown only while that copy also holds the finalizer, and the one
\* setting Degraded=True only after a successful Degraded=Unknown of the same pass.
\* A stored Deployer that is not marked for deletion holds no Degraded condition.
C32_DegradedOnlyWhenFinalizing ==
    /\ [](cr.exists /\ ~cr.deletionTimestamp => ~HoldsDegraded(cr.conditions))
    /\ [][IssuesDegradedWrite =>
             /\ deployer.deletionTimestamp
             /\ Issued.what \in {"Degraded=Unknown", "Degraded=True"}
                   \/ HoldsDegraded(deployer.conditions)
             /\ Issued.what = "Degraded=Unknown" =>
                   ContainsFinalizer(deployer, deployerFinalizer)
             /\ Issued.what = "Degraded=True" =>
                   \E i \in 1..Len(passLog) :
                       /\ passLog[i].what = "Degraded=Unknown"
                       /\ passLog[i].res = "ok"]_vars

\* C32 witness: the pass has just persisted Degraded=Unknown on the stored
\* Deployer, which is marked for deletion and holds the finalizer
C32_Witness ==
    /\ pc = "finalizerOperations"
    /\ Last(passLog).what = "Degraded=Unknown" /\ Last(passLog).res = "ok"
    /\ cr.exists /\ cr.deletionTimestamp
    /\ ContainsFinalizer(cr, deployerFinalizer)
    /\ InConditions(cr.conditions, DegradedUnknown)

====
